---- MODULE Spec2Model ----
(***************************************************************************)
(* Model of the game server core: GameController (game_core) and           *)
(* GameRuleChecker (rules).  The controller keeps the games and the        *)
(* registry of player identities; every player input is validated by the   *)
(* rule checker against the stored game and then dispatched.               *)
(***************************************************************************)
EXTENDS Integers, Sequences, FiniteSets, TLC

VARIABLES games, unique_ids, pre, last, rin, rout

vars == <<games, unique_ids, pre, last, rin, rout>>

-----------------------------------------------------------------------------
(* Bounds of the model *)

\* the player identities that are drawn (rand::random::<i32>() in the code)
IdSpace == {1, 2}
\* the game identifiers that are drawn
GameIdSpace == {1, 2}
\* the pending log of a game is not grown beyond MaxLog entries
MaxLog == 2
\* the draws generate_unused_unique_id checks in one call (100_000 in the code)
DrawBudget == 2
\* seconds that pass in one step of the clock
TickSecs == 50
\* the clock stops once an identity has not checked in for MaxElapsed seconds
MaxElapsed == 100

-----------------------------------------------------------------------------
(* Program constants *)

PLAYER_TIMEOUT == 90

MAX_ACCESS_MODIFIER_COUNT == 1
MAX_PRIORITY_MODIFIER_COUNT == 1
MAX_TOLL_MODIFIER_COUNT == 1

\* GameState::get_starting_player_movement_value()
StartingMovementValue == 2

-----------------------------------------------------------------------------
(* Enumerations and option values *)

InGameIDs == {"Undecided", "Orchestrator", "PlayerOne", "PlayerTwo"}
NoRole == "None"

\* the next role in the turn rotation
NextRole(role) ==
    CASE role = "Orchestrator" -> "PlayerOne"
      [] role = "PlayerOne" -> "PlayerTwo"
      [] OTHER -> "Orchestrator"

RestrictionTypes == {"ParkAndRide", "OneWay", "Destination", "Emergency"}
NoRestriction == "None"

DistrictModifierTypes == {"Access", "Priority", "Toll"}

\* Option<NodeID>::None
NoNode == 0

NoCard == [some |-> FALSE, special_vehicle_types |-> {}, district |-> 0]
Card(types, d) == [some |-> TRUE, special_vehicle_types |-> types, district |-> d]

NoDM == [some |-> FALSE, district |-> 0, modifier |-> "Access",
         vehicle_type |-> NoRestriction, delete |-> FALSE]
DM(d, m, v, del) == [some |-> TRUE, district |-> d, modifier |-> m,
                     vehicle_type |-> v, delete |-> del]

NoEdgeMod == [some |-> FALSE, node_one |-> 0, node_two |-> 0,
              edge_restriction |-> NoRestriction, delete |-> FALSE]
EdgeMod(a, b, r, del) == [some |-> TRUE, node_one |-> a, node_two |-> b,
                          edge_restriction |-> r, delete |-> del]

\* the input kinds the controller's apply_input dispatches on
ControllerInputTypes ==
    {"Movement", "ChangeRole", "All", "NextTurn", "UndoAction", "ModifyDistrict"}
\* the input kinds the rules are bound to
RuleInputTypes ==
    ControllerInputTypes \cup
    {"StartGame", "ModifyEdgeRestrictions", "SetPlayerBusBool", "LeaveGame"}

PlayerInput(pid, gid, kind, role, node, dm, b, em) ==
    [player_id |-> pid, game_id |-> gid, input_type |-> kind,
     related_role |-> role, related_node_id |-> node,
     district_modifier |-> dm, related_bool |-> b, edge_modifier |-> em]

NoInput == PlayerInput(0, 0, "All", NoRole, NoNode, NoDM, "None", NoEdgeMod)

Player(pid, role, pos, moves, bus, card) ==
    [unique_id |-> pid, in_game_id |-> role, position_node_id |-> pos,
     remaining_moves |-> moves, is_bus |-> bus, objective_card |-> card]

\* Result<(), String> of an operation on a game: the game as the operation left it
Ok(g) == [ok |-> TRUE, err |-> "", game |-> g]
Err(e, g) == [ok |-> FALSE, err |-> e, game |-> g]

-----------------------------------------------------------------------------
(* The map graph: nodes with flags, directed neighbour relationships *)

Nodes == 1..6

Node(n) == [id |-> n, is_parking_spot |-> (n = 4),
            is_connected_to_rail |-> (n \in {5, 6})]

Rel(to, r, rail, modifiable, nbh, cost) ==
    [to |-> to, restriction |-> r, is_connected_through_rail |-> rail,
     is_modifiable |-> modifiable, neighbourhood |-> nbh, cost |-> cost]

MapNeighbours(n) ==
    CASE n = 1 -> << Rel(2, NoRestriction, FALSE, TRUE, 1, 1),
                     Rel(3, NoRestriction, FALSE, TRUE, 1, 1),
                     Rel(5, NoRestriction, TRUE, FALSE, 2, 1) >>
      [] n = 2 -> << Rel(1, NoRestriction, FALSE, TRUE, 1, 1),
                     Rel(3, NoRestriction, FALSE, TRUE, 1, 2),
                     Rel(5, "Destination", FALSE, TRUE, 2, 1),
                     Rel(6, "Emergency", FALSE, FALSE, 2, 1) >>
      [] n = 3 -> << Rel(1, NoRestriction, FALSE, TRUE, 1, 1),
                     Rel(2, NoRestriction, FALSE, TRUE, 1, 2),
                     Rel(4, "OneWay", FALSE, TRUE, 2, 1) >>
      [] n = 4 -> << Rel(3, NoRestriction, FALSE, TRUE, 1, 1),
                     Rel(5, "ParkAndRide", FALSE, TRUE, 2, 1),
                     Rel(2, NoRestriction, FALSE, TRUE, 2, 1) >>
      [] n = 5 -> << Rel(4, "ParkAndRide", FALSE, TRUE, 2, 1),
                     Rel(6, NoRestriction, TRUE, FALSE, 2, 1),
                     Rel(2, "Destination", FALSE, TRUE, 2, 1) >>
      [] n = 6 -> << Rel(5, NoRestriction, TRUE, FALSE, 2, 1),
                     Rel(2, NoRestriction, FALSE, FALSE, 1, 1) >>
      [] OTHER -> << >>

\* map.get_neighbour_relationships_of_node_with_id: None for an unknown node
HasNeighbourList(n) == n \in Nodes

\* neighbours.iter().any(|n| n.to == to)
HasRelTo(rels, to) == \E i \in 1..Len(rels) : rels[i].to = to

\* neighbours.iter().find(|n| n.to == to), when it exists
FindRelTo(rels, to) ==
    rels[CHOOSE i \in 1..Len(rels) :
            /\ rels[i].to = to
            /\ \A j \in 1..(i - 1) : rels[j].to # to]

-----------------------------------------------------------------------------
(* GameState *)

GameState(id, lobby, players, turn, dms, actions) ==
    [id |-> id, is_lobby |-> lobby, players |-> players,
     current_players_turn |-> turn, district_modifiers |-> dms,
     actions |-> actions]

\* GameState::new
NewGameState(id) == GameState(id, TRUE, << >>, "Orchestrator", << >>, << >>)

NoGame == GameState(0, TRUE, << >>, "Orchestrator", << >>, << >>)

contains_player_with_unique_id(game, pid) ==
    \E i \in 1..Len(game.players) : game.players[i].unique_id = pid

PlayerIndex(game, pid) ==
    CHOOSE i \in 1..Len(game.players) :
        /\ game.players[i].unique_id = pid
        /\ \A j \in 1..(i - 1) : game.players[j].unique_id # pid

\* get_player_with_unique_id, when it is Ok
get_player_with_unique_id(game, pid) == game.players[PlayerIndex(game, pid)]

\* the player joins as Orchestrator when the game has no player yet, Undecided otherwise
assign_player_to_game(game, player) ==
    IF contains_player_with_unique_id(game, player.unique_id)
    THEN Err("The player is already in this game", game)
    ELSE LET role == IF Len(game.players) = 0 THEN "Orchestrator" ELSE "Undecided"
         IN Ok([game EXCEPT !.players =
                    Append(@, [player EXCEPT !.in_game_id = role])])

\* a role other than Undecided is held by at most one player of a game
assign_player_role(game, pid, role) ==
    IF ~contains_player_with_unique_id(game, pid)
    THEN Err("There is no player with that id in the game", game)
    ELSE IF /\ role # "Undecided"
            /\ \E i \in 1..Len(game.players) : game.players[i].in_game_id = role
    THEN Err("There is already a player with that role", game)
    ELSE Ok([game EXCEPT !.players[PlayerIndex(game, pid)].in_game_id = role])

remove_player_with_id(game, pid) ==
    [game EXCEPT !.players = SelectSeq(@, LAMBDA p : p.unique_id # pid)]

\* the movement primitive: the player goes to the node and pays the cost of the edge
move_player_with_id(game, pid, to) ==
    IF ~contains_player_with_unique_id(game, pid)
    THEN Err("There is no player with that id in the game", game)
    ELSE LET i == PlayerIndex(game, pid)
             p == game.players[i]
         IN IF p.position_node_id = NoNode
            THEN Err("The player is not at any node", game)
            ELSE IF ~HasRelTo(MapNeighbours(p.position_node_id), to)
            THEN Err("The node is not a neighbour of the player's node", game)
            ELSE Ok([game EXCEPT
                       !.players[i].position_node_id = to,
                       !.players[i].remaining_moves =
                           @ - FindRelTo(MapNeighbours(p.position_node_id), to).cost])

next_player_turn(game) ==
    [game EXCEPT !.current_players_turn = NextRole(@)]

\* GameState::player_has_objective_in_district
player_has_objective_in_district(player, district) ==
    player.objective_card.some /\ player.objective_card.district = district

-----------------------------------------------------------------------------
(* GameRuleChecker: the rules *)

Valid == "Valid"

\* a rule that takes a lobby for a started game
has_game_started_in_lobby(game, input) == Valid

has_game_started(game, input) ==
    IF game.is_lobby THEN "The game has not started yet!" ELSE Valid

has_non_negative_amount_of_moves_left(game, input) ==
    IF ~contains_player_with_unique_id(game, input.player_id)
    THEN "There is no player with that id in the game"
    ELSE IF get_player_with_unique_id(game, input.player_id).remaining_moves < 0
    THEN "The player does not have enough remaining moves!"
    ELSE Valid

has_enough_moves(game, input) ==
    IF ~contains_player_with_unique_id(game, input.player_id)
    THEN "There is no player with that id in the game"
    ELSE IF get_player_with_unique_id(game, input.player_id).remaining_moves = 0
    THEN "The player has no remaining moves!"
    ELSE IF input.related_node_id = NoNode
    THEN "There was no node to get cost to!"
    ELSE LET moved == move_player_with_id(game, input.player_id, input.related_node_id)
         IN IF ~moved.ok THEN moved.err
            ELSE has_non_negative_amount_of_moves_left(moved.game, input)

can_enter_district(game, input) ==
    IF ~contains_player_with_unique_id(game, input.player_id)
    THEN "There is no player with that id in the game"
    ELSE
    LET player == get_player_with_unique_id(game, input.player_id)
        dms == game.district_modifiers
    IN
    IF ~player.objective_card.some
    THEN "Error: Player does not have an objective card"
    ELSE IF player.position_node_id = NoNode
    THEN "Error: Player does not have a valid position and can therefore not move"
    ELSE IF ~HasNeighbourList(player.position_node_id)
    THEN "Error: Node does not exist"
    ELSE IF input.related_node_id = NoNode
    THEN "Error: Related node ID does not exist in player input"
    ELSE IF ~HasRelTo(MapNeighbours(player.position_node_id), input.related_node_id)
    THEN "Error: There is no neighbouring node with the ID given"
    ELSE
    LET rel == FindRelTo(MapNeighbours(player.position_node_id), input.related_node_id)
        \* the modifiers the loop does not skip
        Hit(i) == /\ dms[i].district = rel.neighbourhood
                  /\ dms[i].modifier = "Access"
        NoVehicle(i) == Hit(i) /\ dms[i].vehicle_type = NoRestriction
        Grants(i) ==
            /\ Hit(i)
            /\ dms[i].vehicle_type # NoRestriction
            /\ \/ dms[i].vehicle_type \in player.objective_card.special_vehicle_types
               \/ /\ dms[i].vehicle_type = "Destination"
                  /\ player_has_objective_in_district(player, dms[i].district)
        \* the first modifier at which the loop returns
        Stops == {i \in 1..Len(dms) : NoVehicle(i) \/ Grants(i)}
        first == CHOOSE i \in Stops : \A j \in Stops : i <= j
    IN
    IF Stops # {}
    THEN IF NoVehicle(first)
         THEN "Error: There was no vehicle for access modifier"
         ELSE Valid
    ELSE IF ~(\E i \in 1..Len(dms) : Hit(i))
    THEN Valid
    ELSE "Invalid move: Player does not have required vehicle type to access this district"

has_position(game, input) ==
    IF ~contains_player_with_unique_id(game, input.player_id)
    THEN "There is no player with that id in the game"
    ELSE IF get_player_with_unique_id(game, input.player_id).position_node_id = NoNode
    THEN "The player does not have a position!"
    ELSE Valid

\* map.are_nodes_neighbours: an error for a node the map does not hold
next_node_is_neighbour(game, input) ==
    IF ~contains_player_with_unique_id(game, input.player_id)
    THEN "There is no player with that id in the game"
    ELSE LET pos == get_player_with_unique_id(game, input.player_id).position_node_id
         IN IF pos = NoNode
            THEN "The player does not have a position!"
            ELSE IF input.related_node_id = NoNode
            THEN "There was node to check if it's a neighbour!"
            ELSE IF pos \notin Nodes \/ input.related_node_id \notin Nodes
            THEN "The node does not exist in the map"
            ELSE IF ~HasRelTo(MapNeighbours(pos), input.related_node_id)
            THEN "The node is not a neighbour of the player's position!"
            ELSE Valid

\* a rule that lets every player of the game through
is_players_turn_any_member(game, input) ==
    IF game.is_lobby \/ input.input_type = "LeaveGame"
    THEN Valid
    ELSE IF ~contains_player_with_unique_id(game, input.player_id)
    THEN "There is no player with that id in the game"
    ELSE Valid

is_players_turn(game, input) ==
    IF game.is_lobby \/ input.input_type = "LeaveGame"
    THEN Valid
    ELSE IF ~contains_player_with_unique_id(game, input.player_id)
    THEN "There is no player with that id in the game"
    ELSE IF game.current_players_turn #
                get_player_with_unique_id(game, input.player_id).in_game_id
    THEN "It's not the current players turn"
    ELSE Valid

is_orchestrator(game, input) ==
    IF ~contains_player_with_unique_id(game, input.player_id)
    THEN "There is no player with that id in the game"
    ELSE IF get_player_with_unique_id(game, input.player_id).in_game_id # "Orchestrator"
    THEN "The player is not the orchestrator of the game!"
    ELSE Valid

default_can_modify_edge_restriction(edge_mod, neighbours_one, node_two_id) ==
    IF ~HasRelTo(neighbours_one, node_two_id)
    THEN "The node does not have a neighbour with that id!"
    ELSE LET relationship == FindRelTo(neighbours_one, node_two_id)
         IN IF edge_mod.delete
            THEN IF relationship.is_modifiable
                 THEN Valid
                 ELSE "A edge restriction already exists on the edge or is not modifiable!"
            ELSE IF ~relationship.is_modifiable
            THEN "The edge is not modifiable!"
            ELSE Valid

is_edge_modification_action_valid(game, input) ==
    IF ~input.edge_modifier.some
    THEN "There was no modifier on the edge modifier player input"
    ELSE IF ~HasNeighbourList(input.edge_modifier.node_one)
    THEN "The node does not have neighbours and can therefore not have restrictions!"
    ELSE IF ~HasNeighbourList(input.edge_modifier.node_two)
    THEN "The node does not have neighbours and can therefore not have restrictions!"
    ELSE default_can_modify_edge_restriction(
             input.edge_modifier,
             MapNeighbours(input.edge_modifier.node_one),
             input.edge_modifier.node_two)

BusReason == "The player cannot move here because the node is not connected with a park & ride edge!"
RailReason == "The player cannot move here because the node is not connected through the railway!"
ParkAndRideReason == "The player cannot move here because it's a park & ride edge!"
OneWayReason == "The player cannot move here because it's a one way street in the opposite direction!"
NoAccessReason == "The player does not have access to the edge"
NoCardReason == "The player does not have an objective card"

\* a bus branch that takes any edge to the target
bus_can_move_to_node_any_edge(neighbours, to_node_id) ==
    IF HasRelTo(neighbours, to_node_id) THEN Valid ELSE BusReason

\* the branch of can_move_to_node taken when player.is_bus
bus_can_move_to_node(neighbours, to_node_id) ==
    IF \E i \in 1..Len(neighbours) :
           /\ neighbours[i].restriction = "ParkAndRide"
           /\ neighbours[i].to = to_node_id
    THEN Valid
    ELSE BusReason

can_move_to_node(game, input) ==
    IF ~contains_player_with_unique_id(game, input.player_id)
    THEN "There is no player with that id in the game"
    ELSE
    LET player == get_player_with_unique_id(game, input.player_id)
        player_pos == player.position_node_id
        to_node_id == input.related_node_id
    IN
    IF player_pos = NoNode
    THEN "The player does not have a position and can therefore not check if it's a valid action!"
    ELSE IF to_node_id = NoNode
    THEN "There is no related node to the movement input"
    ELSE IF ~HasNeighbourList(player_pos)
    THEN "The node does not have neighbours and can therefore not have park and ride!"
    ELSE
    LET neighbours == MapNeighbours(player_pos)
        AnyTo(P(_)) == \E i \in 1..Len(neighbours) :
                          P(neighbours[i]) /\ neighbours[i].to = to_node_id
        IsPR(n) == n.restriction = "ParkAndRide"
        IsRail(n) == n.is_connected_through_rail
    IN
    IF player.is_bus
    THEN bus_can_move_to_node(neighbours, to_node_id)
    ELSE IF player_pos \notin Nodes \/ to_node_id \notin Nodes
    THEN "There is no node with that id And can therefore not check whether the player can move here!"
    ELSE IF Node(player_pos).is_connected_to_rail /\ Node(to_node_id).is_connected_to_rail
    THEN IF AnyTo(IsRail) THEN Valid ELSE RailReason
    ELSE IF AnyTo(IsRail)
    THEN RailReason
    ELSE IF ~HasRelTo(neighbours, to_node_id)
    THEN "The node is not a neighbour of the node and can therefore not be moved to!"
    ELSE
    LET neighbour_relationship == FindRelTo(neighbours, to_node_id)
        to_node_neighbours == MapNeighbours(to_node_id)
        restriction == neighbour_relationship.restriction
    IN
    IF /\ HasRelTo(to_node_neighbours, player_pos)
       /\ FindRelTo(to_node_neighbours, player_pos).restriction = "OneWay"
    THEN OneWayReason
    ELSE IF restriction # NoRestriction
    THEN IF ~player.objective_card.some
         THEN NoCardReason
         ELSE IF /\ ~(\/ restriction \in player.objective_card.special_vehicle_types
                      \/ /\ restriction = "Destination"
                         /\ player_has_objective_in_district(
                                player, neighbour_relationship.neighbourhood))
                 /\ restriction # "OneWay"
         THEN NoAccessReason
         ELSE Valid
    ELSE IF can_enter_district(game, input) # Valid
    THEN can_enter_district(game, input)
    ELSE IF AnyTo(IsPR)
    THEN ParkAndRideReason
    ELSE Valid

can_toggle_bus(game, input) ==
    IF ~contains_player_with_unique_id(game, input.player_id)
    THEN "There is no player with that id in the game"
    ELSE LET player == get_player_with_unique_id(game, input.player_id)
         IN IF input.related_bool = "None"
            THEN "Could not check if you can toggle bus because the related bool was not set"
            ELSE IF player.position_node_id = NoNode
            THEN "The player does not have a position and can therefore not check if it's a valid action!"
            ELSE IF player.position_node_id \notin Nodes
            THEN "There is no node with that id and can therefore not check wether the player can toggle bus!"
            ELSE IF ~Node(player.position_node_id).is_parking_spot
            THEN "You cannot toggle bus if you are not on a parking spot!"
            ELSE Valid

-----------------------------------------------------------------------------
(* GameRuleChecker: the rule list and is_input_valid *)

Rule(name, kinds) == [name |-> name, related_inputs |-> kinds]

get_rules ==
    << Rule("game_started", {"Movement", "ModifyDistrict", "NextTurn", "UndoAction"}),
       Rule("players_turn", {"All"}),
       Rule("orchestrator_check", {"StartGame", "ModifyEdgeRestrictions", "ModifyDistrict"}),
       Rule("player_has_position", {"Movement"}),
       Rule("toggle_bus", {"SetPlayerBusBool"}),
       Rule("next_to_node", {"Movement"}),
       Rule("enough_moves", {"Movement"}),
       Rule("move_to_node", {"Movement"}),
       Rule("can_modify_edge_restriction", {"ModifyEdgeRestrictions"}) >>

\* (rule.rule_fn)(game, player_input)
rule_fn(name, game, input) ==
    CASE name = "game_started" -> has_game_started(game, input)
      [] name = "players_turn" -> is_players_turn(game, input)
      [] name = "orchestrator_check" -> is_orchestrator(game, input)
      [] name = "player_has_position" -> has_position(game, input)
      [] name = "toggle_bus" -> can_toggle_bus(game, input)
      [] name = "next_to_node" -> next_node_is_neighbour(game, input)
      [] name = "enough_moves" -> has_enough_moves(game, input)
      [] name = "move_to_node" -> can_move_to_node(game, input)
      [] name = "can_modify_edge_restriction" ->
             is_edge_modification_action_valid(game, input)

\* the rule is skipped when none of its kinds is the input's kind or the wildcard
RuleSkipped(rule, input) ==
    \A input_type \in rule.related_inputs :
        input_type # input.input_type /\ input_type # "All"

NoError == "None"

\* try_for_each over rules[i..]: the rules evaluated, in order, and the Option returned
RECURSIVE RunRules(_, _, _, _, _)
RunRules(rules, game, input, i, evaluated) ==
    IF i > Len(rules)
    THEN [evaluated |-> evaluated, result |-> NoError]
    ELSE IF RuleSkipped(rules[i], input)
    THEN RunRules(rules, game, input, i + 1, evaluated)
    ELSE LET response == rule_fn(rules[i].name, game, input)
         IN IF response = Valid
            THEN RunRules(rules, game, input, i + 1, Append(evaluated, rules[i].name))
            ELSE [evaluated |-> Append(evaluated, rules[i].name), result |-> response]

\* a checker that goes on after a rule has reported invalid
RECURSIVE RunEveryRule(_, _, _, _, _, _)
RunEveryRule(rules, game, input, i, evaluated, result) ==
    IF i > Len(rules)
    THEN [evaluated |-> evaluated, result |-> result]
    ELSE IF RuleSkipped(rules[i], input)
    THEN RunEveryRule(rules, game, input, i + 1, evaluated, result)
    ELSE LET response == rule_fn(rules[i].name, game, input)
         IN RunEveryRule(rules, game, input, i + 1, Append(evaluated, rules[i].name),
                         IF result = NoError /\ response # Valid
                         THEN response ELSE result)

is_input_valid_run_no_break(game, input) ==
    RunEveryRule(get_rules, game, input, 1, << >>, NoError)

is_input_valid_run(game, input) == RunRules(get_rules, game, input, 1, << >>)

is_input_valid(game, input) == is_input_valid_run(game, input).result

-----------------------------------------------------------------------------
(* GameController: the action pipeline *)

handle_movement(input, game) ==
    IF input.related_node_id = NoNode
    THEN Err("There was no node related to the movement!", game)
    ELSE move_player_with_id(game, input.player_id, input.related_node_id)

change_role_player(input, game) ==
    IF input.related_role = NoRole
    THEN Err("There was no related role to change to!", game)
    ELSE assign_player_role(game, input.player_id, input.related_role)

MaxModifierCount(modifier) ==
    CASE modifier = "Access" -> MAX_ACCESS_MODIFIER_COUNT
      [] modifier = "Priority" -> MAX_PRIORITY_MODIFIER_COUNT
      [] modifier = "Toll" -> MAX_TOLL_MODIFIER_COUNT

\* district_modifiers.iter().filter(|m| m.modifier == modifier).count()
ModifierCount(game, modifier) ==
    Cardinality({i \in 1..Len(game.district_modifiers) :
                    game.district_modifiers[i].modifier = modifier})

\* the sequence without its i-th element (Vec::remove)
RemoveAt(seq, i) == SubSeq(seq, 1, i - 1) \o SubSeq(seq, i + 1, Len(seq))

\* a handler that adds a modifier without looking at the cap
handle_district_restriction_uncapped(input, game) ==
    IF ~input.district_modifier.some
    THEN Err("There was no district in the input modifier", game)
    ELSE Ok([game EXCEPT !.district_modifiers = Append(@, input.district_modifier)])

\* a handler whose deletion takes the last equal entry
handle_district_restriction_deletes_last(input, game) ==
    IF ~input.district_modifier.some
    THEN Err("There was no district in the input modifier", game)
    ELSE
    LET district_modifier == input.district_modifier
        dms == game.district_modifiers
    IN
    IF district_modifier.delete
    THEN LET distr_mod == [district_modifier EXCEPT !.delete = FALSE]
             found == {i \in 1..Len(dms) : dms[i] = distr_mod}
         IN IF found = {}
            THEN Err("There is no modifier like the given one in the game!", game)
            ELSE LET mod_pos == CHOOSE i \in found : \A j \in found : i >= j
                 IN Ok([game EXCEPT !.district_modifiers = RemoveAt(@, mod_pos)])
    ELSE IF MaxModifierCount(district_modifier.modifier) >=
                ModifierCount(game, district_modifier.modifier)
    THEN Err("Cannot add more modifiers of that type", game)
    ELSE Ok([game EXCEPT !.district_modifiers = Append(@, district_modifier)])

handle_district_restriction(input, game) ==
    IF ~input.district_modifier.some
    THEN Err("There was no district in the input modifier", game)
    ELSE
    LET district_modifier == input.district_modifier
        dms == game.district_modifiers
    IN
    IF district_modifier.delete
    THEN LET distr_mod == [district_modifier EXCEPT !.delete = FALSE]
             found == {i \in 1..Len(dms) : dms[i] = distr_mod}
         IN IF found = {}
            THEN Err("There is no modifier like the given one in the game!", game)
            ELSE LET mod_pos == CHOOSE i \in found : \A j \in found : i <= j
                 IN Ok([game EXCEPT !.district_modifiers = RemoveAt(@, mod_pos)])
    ELSE IF MaxModifierCount(district_modifier.modifier) >=
                ModifierCount(game, district_modifier.modifier)
    THEN Err("Cannot add more modifiers of that type", game)
    ELSE Ok([game EXCEPT !.district_modifiers = Append(@, district_modifier)])

apply_input(input, game) ==
    CASE input.input_type = "Movement" -> handle_movement(input, game)
      [] input.input_type = "ChangeRole" -> change_role_player(input, game)
      [] input.input_type = "All" ->
             Err("This input type should not be used by players", game)
      [] input.input_type = "NextTurn" ->
             Err("This is not an action that can be handled by apply_input!", game)
      [] input.input_type = "UndoAction" ->
             Err("This cannot be done in apply_input!", game)
      [] input.input_type = "ModifyDistrict" -> handle_district_restriction(input, game)

\* apply actions[i..] to the game one after the other, stopping at the first error
RECURSIVE ReplayFrom(_, _, _)
ReplayFrom(actions, i, game) ==
    IF i > Len(actions)
    THEN Ok(game)
    ELSE LET r == apply_input(actions[i], game)
         IN IF r.ok THEN ReplayFrom(actions, i + 1, r.game) ELSE r

apply_game_actions(game) ==
    LET r == ReplayFrom(game.actions, 1, game)
    IN IF r.ok THEN r ELSE Err("No actions are applied to the game.", r.game)

\* a turn change that forgets to clear the log
game_next_turn_keeps_log(game) ==
    LET r == apply_game_actions(game)
    IN IF ~r.ok
       THEN Err(r.err, game)
       ELSE Ok(next_player_turn(r.game))

game_next_turn(game) ==
    LET r == apply_game_actions(game)
    IN IF ~r.ok
       THEN Err(r.err, game)
       ELSE Ok(next_player_turn([r.game EXCEPT !.actions = << >>]))

\* a staging step that keeps what the replay did to the clone
add_action_in_place(input, game) ==
    LET replayed == ReplayFrom(game.actions, 1, game)
    IN IF ~replayed.ok
       THEN Err(replayed.err, game)
       ELSE LET r == apply_input(input, replayed.game)
            IN IF r.ok
               THEN Ok([r.game EXCEPT !.actions = Append(@, input)])
               ELSE Err(r.err, game)

\* a staging step that appends the input without replaying anything
add_action_unchecked(input, game) == Ok([game EXCEPT !.actions = Append(@, input)])

\* a staging step that replays the log but does not try the new input on the clone
add_action_untried(input, game) ==
    LET replayed == ReplayFrom(game.actions, 1, game)
    IN IF ~replayed.ok
       THEN Err(replayed.err, game)
       ELSE Ok([game EXCEPT !.actions = Append(@, input)])

add_action(input, game) ==
    LET replayed == ReplayFrom(game.actions, 1, game)
    IN IF ~replayed.ok
       THEN Err(replayed.err, game)
       ELSE LET r == apply_input(input, replayed.game)
            IN IF r.ok
               THEN Ok([game EXCEPT !.actions = Append(@, input)])
               ELSE Err(r.err, game)

\* a dispatch whose undo drops the oldest entry of the log
handle_input_undo_oldest(input, game) ==
    IF input.input_type = "NextTurn"
    THEN game_next_turn(game)
    ELSE IF input.input_type = "UndoAction"
    THEN IF Len(game.actions) > 0
         THEN Ok([game EXCEPT !.actions = Tail(@)])
         ELSE Err("There is no action to undo!", game)
    ELSE IF input.input_type = "ChangeRole"
    THEN apply_input(input, game)
    ELSE add_action(input, game)

\* a dispatch whose undo empties the log
handle_input_undo_all(input, game) ==
    IF input.input_type = "NextTurn"
    THEN game_next_turn(game)
    ELSE IF input.input_type = "UndoAction"
    THEN IF Len(game.actions) > 0
         THEN Ok([game EXCEPT !.actions = << >>])
         ELSE Err("There is no action to undo!", game)
    ELSE IF input.input_type = "ChangeRole"
    THEN apply_input(input, game)
    ELSE add_action(input, game)

handle_input(input, game) ==
    IF input.input_type = "NextTurn"
    THEN game_next_turn(game)
    ELSE IF input.input_type = "UndoAction"
    THEN IF Len(game.actions) > 0
         THEN Ok([game EXCEPT !.actions = SubSeq(@, 1, Len(@) - 1)])
         ELSE Err("There is no action to undo!", game)
    ELSE IF input.input_type = "ChangeRole"
    THEN apply_input(input, game)
    ELSE add_action(input, game)

-----------------------------------------------------------------------------
(* GameController: the registry and the collection of games *)

Registered(ids, pid) == \E i \in 1..Len(ids) : ids[i].id = pid

remove_empty_games(gs) == SelectSeq(gs, LAMBDA game : Len(game.players) > 0)

\* a purge that keeps every identity
remove_inactive_ids_keeps_all(ids) == ids

remove_inactive_ids(ids) == SelectSeq(ids, LAMBDA e : e.elapsed < PLAYER_TIMEOUT)

HasGame(gs, gid) == \E i \in 1..Len(gs) : gs[i].id = gid

\* games.iter().find(|g| g.id == gid), when it exists
GameIndex(gs, gid) ==
    CHOOSE i \in 1..Len(gs) : gs[i].id = gid /\ \A j \in 1..(i - 1) : gs[j].id # gid

\* what a call of the controller returns and leaves behind
Outcome(gs, ids, ok, stage, err, snap) ==
    [games |-> gs, unique_ids |-> ids, ok |-> ok, stage |-> stage,
     err |-> err, snap |-> snap]

handle_player_input(gs0, ids0, input) ==
    LET gs == remove_empty_games(gs0)
        ids == remove_inactive_ids(ids0)
    IN
    IF ~Registered(ids, input.player_id)
    THEN Outcome(gs, ids, FALSE, "identity",
                 "There does not exist a player with the unique id", NoGame)
    ELSE IF ~HasGame(gs, input.game_id)
    THEN Outcome(gs, ids, FALSE, "lookup",
                 "Could not find the game the player has done an input for!", NoGame)
    ELSE
    LET k == GameIndex(gs, input.game_id)
        related_game == gs[k]
        error == is_input_valid(related_game, input)
    IN
    IF error # NoError
    THEN Outcome(gs, ids, FALSE, "rules", error, NoGame)
    ELSE
    LET handled == handle_input(input, related_game)
    IN
    \* handle_input works on the stored game itself: what it did to it stays
    LET stored == [gs EXCEPT ![k] = handled.game]
        replayed == apply_game_actions(handled.game)
    IN
    IF ~handled.ok
    THEN Outcome(stored, ids, FALSE, "dispatch", handled.err, NoGame)
    ELSE IF replayed.ok
    THEN Outcome(stored, ids, TRUE, "done", "", replayed.game)
    ELSE Outcome(stored, ids, FALSE, "replay", replayed.err, NoGame)

\* a query that commits the log it replays
get_game_by_id_commits(gs, ids, game_id) ==
    IF ~HasGame(gs, game_id)
    THEN Outcome(gs, ids, FALSE, "lookup", "There is no game with id", NoGame)
    ELSE LET k == GameIndex(gs, game_id)
             replayed == apply_game_actions(gs[k])
         IN IF replayed.ok
            THEN Outcome([gs EXCEPT ![k] = [replayed.game EXCEPT !.actions = << >>]],
                         ids, TRUE, "done", "", replayed.game)
            ELSE Outcome(gs, ids, FALSE, "replay", replayed.err, NoGame)

\* a query that stores the replayed game
get_game_by_id_stores_replay(gs, ids, game_id) ==
    IF ~HasGame(gs, game_id)
    THEN Outcome(gs, ids, FALSE, "lookup", "There is no game with id", NoGame)
    ELSE LET k == GameIndex(gs, game_id)
             replayed == apply_game_actions(gs[k])
         IN IF replayed.ok
            THEN Outcome([gs EXCEPT ![k] = replayed.game], ids, TRUE, "done", "",
                         replayed.game)
            ELSE Outcome(gs, ids, FALSE, "replay", replayed.err, NoGame)

get_game_by_id(gs, ids, game_id) ==
    IF ~HasGame(gs, game_id)
    THEN Outcome(gs, ids, FALSE, "lookup", "There is no game with id", NoGame)
    ELSE LET replayed == apply_game_actions(gs[GameIndex(gs, game_id)])
         IN IF replayed.ok
            THEN Outcome(gs, ids, TRUE, "done", "", replayed.game)
            ELSE Outcome(gs, ids, FALSE, "replay", replayed.err, NoGame)

NoOrchestratorReason ==
    "Unable to start game because lobby does not have an orchestrator"
NotEnoughPlayersReason ==
    "Unable to start game because there are not enough players"

\* a start that does not count the players
start_game_any_size(gamestate) ==
    LET orchestrators == {i \in 1..Len(gamestate.players) :
                             gamestate.players[i].in_game_id = "Orchestrator"}
    IN
    IF orchestrators = {}
    THEN Err(NoOrchestratorReason, gamestate)
    ELSE Ok([gamestate EXCEPT
               !.is_lobby = FALSE,
               !.players = [i \in 1..Len(gamestate.players) |->
                   [gamestate.players[i] EXCEPT
                       !.remaining_moves = StartingMovementValue]]])

\* a start that leaves the counters of the players as they are
start_game_keeps_moves(gamestate) ==
    LET orchestrators == {i \in 1..Len(gamestate.players) :
                             gamestate.players[i].in_game_id = "Orchestrator"}
    IN
    IF orchestrators = {}
    THEN Err(NoOrchestratorReason, gamestate)
    ELSE IF Len(gamestate.players) < 2
    THEN Err(NotEnoughPlayersReason, gamestate)
    ELSE Ok([gamestate EXCEPT !.is_lobby = FALSE])

start_game(gamestate) ==
    LET orchestrators == {i \in 1..Len(gamestate.players) :
                             gamestate.players[i].in_game_id = "Orchestrator"}
    IN
    IF orchestrators = {}
    THEN Err(NoOrchestratorReason, gamestate)
    ELSE IF Len(gamestate.players) < 2
    THEN Err(NotEnoughPlayersReason, gamestate)
    ELSE Ok([gamestate EXCEPT
               !.is_lobby = FALSE,
               !.players = [i \in 1..Len(gamestate.players) |->
                   [gamestate.players[i] EXCEPT
                       !.remaining_moves = StartingMovementValue]]])

\* a creation that does not look for the host in the games there are
create_new_game_and_assign_host_of_member(gs, ids, host, new_id) ==
    IF ~Registered(ids, host.unique_id)
    THEN Err("A player that has a unique ID that was not made by the server cannot create a lobby.", NoGame)
    ELSE LET r == assign_player_to_game(NewGameState(new_id), host)
         IN IF r.ok THEN r ELSE Err("Failed to create new game", NoGame)

create_new_game_and_assign_host(gs, ids, host, new_id) ==
    IF ~Registered(ids, host.unique_id)
    THEN Err("A player that has a unique ID that was not made by the server cannot create a lobby.", NoGame)
    ELSE IF \E i \in 1..Len(gs) : contains_player_with_unique_id(gs[i], host.unique_id)
    THEN Err("A player that is already connected to a game in progress cannot create a new game.", NoGame)
    ELSE LET r == assign_player_to_game(NewGameState(new_id), host)
         IN IF r.ok THEN r ELSE Err("Failed to create new game", NoGame)

\* the identifiers generate_unused_game_id can return
\* a draw of game identifiers that does not look at the games there are
DrawnGameIds(gs) == GameIdSpace

UnusedGameIds(gs) == {g \in GameIdSpace : ~HasGame(gs, g)}

create_new_game(gs, ids, host, new_id) ==
    LET r == create_new_game_and_assign_host(gs, ids, host, new_id)
    IN IF r.ok
       THEN Outcome(Append(gs, r.game), ids, TRUE, "done", "", r.game)
       ELSE Outcome(gs, ids, FALSE, "create", r.err, NoGame)

\* a join that does not look for the player in the games there are
join_game_unchecked(gs, ids, game_id, player) ==
    IF ~HasGame(gs, game_id)
    THEN Outcome(gs, ids, FALSE, "lookup",
                 "Could not find the game the player has done an input for!", NoGame)
    ELSE LET k == GameIndex(gs, game_id)
             r == [ok |-> TRUE, err |-> "",
                   game |-> [gs[k] EXCEPT !.players = Append(@, player)]]
         IN Outcome([gs EXCEPT ![k] = r.game], ids, TRUE, "done", "", r.game)

join_game(gs, ids, game_id, player) ==
    IF \E i \in 1..Len(gs) : contains_player_with_unique_id(gs[i], player.unique_id)
    THEN Outcome(gs, ids, FALSE, "member",
                 "The player is already connected to another game.", NoGame)
    ELSE IF ~HasGame(gs, game_id)
    THEN Outcome(gs, ids, FALSE, "lookup",
                 "Could not find the game the player has done an input for!", NoGame)
    ELSE LET k == GameIndex(gs, game_id)
             r == assign_player_to_game(gs[k], player)
         IN IF r.ok
            THEN Outcome([gs EXCEPT ![k] = r.game], ids, TRUE, "done", "", r.game)
            ELSE Outcome(gs, ids, FALSE, "assign", r.err, NoGame)

remove_player_from_game(gs, player_id) ==
    [i \in 1..Len(gs) |->
        IF contains_player_with_unique_id(gs[i], player_id)
        THEN remove_player_with_id(gs[i], player_id)
        ELSE gs[i]]

update_check_in_and_remove_inactive(gs, ids, player_id) ==
    LET checked == [i \in 1..Len(ids) |->
                       IF ids[i].id = player_id
                       THEN [ids[i] EXCEPT !.elapsed = 0]
                       ELSE ids[i]]
    IN Outcome(remove_empty_games(gs), remove_inactive_ids(checked),
               TRUE, "done", "", NoGame)

\* the Vec get_all_lobbies returns; the controller is left as it is
get_all_lobbies(gs) == SelectSeq(gs, LAMBDA game : game.is_lobby)

get_created_games(gs, ids) ==
    Outcome(remove_empty_games(gs), ids, TRUE, "done", "", NoGame)

-----------------------------------------------------------------------------------------------------------------------------------------------------
(* The calls the transport layer makes, as actions *)

\* the objective card of a player that joins
JoinCard == Card({}, 1)
\* the positions a joining player is given by the caller
JoinPositions == {1}
\* the Player the caller passes to create_new_game and join_game
JoinPlayers(pid) ==
    {Player(pid, "Undecided", pos, 0, FALSE, JoinCard) : pos \in JoinPositions}

\* an identity the server never issued
UnknownId == Cardinality(IdSpace) + 1
Callers == IdSpace \cup {UnknownId}

\* the payloads of the inputs that are submitted
MoveTargets == {NoNode, 2, 3}
RoleTargets == {NoRole, "Orchestrator", "PlayerOne"}
DistrictInputs == {NoDM, DM(1, "Toll", NoRestriction, FALSE),
                   DM(1, "Toll", NoRestriction, TRUE)}

Input(pid, gid, kind) ==
    PlayerInput(pid, gid, kind, NoRole, NoNode, NoDM, "None", NoEdgeMod)

\* the inputs of the turn pipeline
PipelineInputs(pid, gid) ==
    {[Input(pid, gid, "Movement") EXCEPT !.related_node_id = n] : n \in MoveTargets}
    \cup {[Input(pid, gid, "ChangeRole") EXCEPT !.related_role = r] : r \in RoleTargets}
    \cup {[Input(pid, gid, "ModifyDistrict") EXCEPT !.district_modifier = d] :
             d \in DistrictInputs}
    \cup {Input(pid, gid, k) : k \in {"NextTurn", "UndoAction", "All"}}

\* the inputs submitted while games are set up
LobbyInputs(pid, gid) ==
    {[Input(pid, gid, "ChangeRole") EXCEPT !.related_role = "PlayerOne"],
     Input(pid, gid, "NextTurn")}

Call(op, input, pid, gid, out) ==
    [op |-> op, input |-> input, pid |-> pid, gid |-> gid,
     ok |-> out.ok, stage |-> out.stage, err |-> out.err, snap |-> out.snap]

\* the call leaves the controller as the outcome says, and is recorded
Return(op, input, pid, gid, out) ==
    /\ games' = out.games
    /\ unique_ids' = out.unique_ids
    /\ pre' = [games |-> games, unique_ids |-> unique_ids]
    /\ last' = Call(op, input, pid, gid, out)
    /\ UNCHANGED <<rin, rout>>

\* generate_unused_unique_id: drawn is the identifier the draws end with, found
\* tells whether one of the draws was an unused identifier
generate_player_id(gs, ids, drawn, found) ==
    IF found
    THEN Outcome(gs, Append(ids, [id |-> drawn, elapsed |-> 0]), TRUE, "done", "", NoGame)
    ELSE Outcome(gs, ids, FALSE, "draw", "Failed to make new ID!", NoGame)

\* a search that takes its first draw without looking at the registry
generate_unused_unique_id_unchecked(ids, draws) == [found |-> TRUE, id |-> draws[1]]

\* draws are the identifiers rand::random gives, in the order the loop checks them
generate_unused_unique_id(ids, draws) ==
    LET unused == {i \in 1..Len(draws) : ~Registered(ids, draws[i])}
    IN IF unused = {}
       THEN [found |-> FALSE, id |-> draws[Len(draws)]]
       ELSE [found |-> TRUE, id |-> draws[CHOOSE i \in unused : \A j \in unused : i <= j]]

\* the sequences of draws of one call
Draws == [1..DrawBudget -> IdSpace]

GeneratePlayerId ==
    \E draws \in Draws :
        LET unique == generate_unused_unique_id(unique_ids, draws)
        IN Return("generate_player_id", NoInput, unique.id, 0,
                  generate_player_id(games, unique_ids, unique.id, unique.found))

CreateNewGame ==
    \E pid \in IdSpace, new_id \in GameIdSpace :
        \E host \in JoinPlayers(pid) :
            /\ \/ new_id \in UnusedGameIds(games)
               \/ ~create_new_game_and_assign_host(games, unique_ids, host, new_id).ok
            /\ Return("create_new_game", NoInput, pid, 0,
                      create_new_game(games, unique_ids, host, new_id))

StartGame ==
    \E k \in 1..Len(games) :
        LET r == start_game(games[k])
        IN Return("start_game", NoInput, 0, games[k].id,
                  Outcome([games EXCEPT ![k] = r.game], unique_ids, r.ok,
                          IF r.ok THEN "done" ELSE "start", r.err,
                          IF r.ok THEN r.game ELSE NoGame))

JoinGame ==
    \E pid \in IdSpace, gid \in GameIdSpace :
        \E player \in JoinPlayers(pid) :
            Return("join_game", NoInput, pid, gid,
                   join_game(games, unique_ids, gid, player))

HandleLobbyInput ==
    \E pid \in IdSpace, gid \in GameIdSpace :
        \E input \in LobbyInputs(pid, gid) :
            Return("handle_player_input", input, pid, gid,
                   handle_player_input(games, unique_ids, input))

\* the inputs of a caller the server does not know or for a game that is not there
StrayInputs(pid, gid) ==
    {Input(pid, gid, "NextTurn"),
     [Input(pid, gid, "Movement") EXCEPT !.related_node_id = 2]}

Submitted(pid, gid) ==
    IF pid \in IdSpace /\ HasGame(games, gid)
    THEN PipelineInputs(pid, gid)
    ELSE StrayInputs(pid, gid)

HandlePlayerInput ==
    \E pid \in Callers, gid \in GameIdSpace :
        \E input \in Submitted(pid, gid) :
            /\ input.input_type \in {"Movement", "ModifyDistrict"} =>
                   \A i \in 1..Len(games) : Len(games[i].actions) < MaxLog
            /\ Return("handle_player_input", input, pid, gid,
                      handle_player_input(games, unique_ids, input))

GetGameById ==
    \E gid \in GameIdSpace :
        Return("get_game_by_id", NoInput, 0, gid,
               get_game_by_id(games, unique_ids, gid))

GetCreatedGames ==
    Return("get_created_games", NoInput, 0, 0, get_created_games(games, unique_ids))

GetAllLobbies ==
    Return("get_all_lobbies", NoInput, 0, 0,
           Outcome(games, unique_ids, TRUE, "done", "", NoGame))

RemovePlayerFromGame ==
    \E pid \in IdSpace :
        Return("remove_player_from_game", NoInput, pid, 0,
               Outcome(remove_player_from_game(games, pid), unique_ids,
                       TRUE, "done", "", NoGame))

UpdateCheckIn ==
    \E pid \in IdSpace :
        Return("update_check_in_and_remove_inactive", NoInput, pid, 0,
               update_check_in_and_remove_inactive(games, unique_ids, pid))

\* time passes: every Instant in the registry is TickSecs older
Tick ==
    /\ unique_ids # << >>
    /\ \A i \in 1..Len(unique_ids) : unique_ids[i].elapsed < MaxElapsed
    /\ Return("tick", NoInput, 0, 0,
              Outcome(games,
                      [i \in 1..Len(unique_ids) |->
                          [unique_ids[i] EXCEPT !.elapsed = @ + TickSecs]],
                      TRUE, "done", "", NoGame))

NoCall == Call("new", NoInput, 0, 0, Outcome(<< >>, << >>, TRUE, "done", "", NoGame))

NoRuleCase == [game |-> NoGame, input |-> NoInput]
NoRuleRun == [done |-> FALSE, evaluated |-> << >>, result |-> NoError]

\* GameController::new
Init ==
    /\ games = << >>
    /\ unique_ids = << >>
    /\ pre = [games |-> << >>, unique_ids |-> << >>]
    /\ last = NoCall
    /\ rin = NoRuleCase
    /\ rout = NoRuleRun

\* the controller while identities come and go and lobbies are set up
Next ==
    \/ GeneratePlayerId
    \/ CreateNewGame
    \/ JoinGame
    \/ HandleLobbyInput
    \/ GetGameById
    \/ GetCreatedGames
    \/ GetAllLobbies
    \/ RemovePlayerFromGame
    \/ UpdateCheckIn
    \/ Tick

Spec == Init /\ [][Next]_vars

\* a lobby of two registered players, as create_new_game and join_game leave it
LobbyGame ==
    GameState(1, TRUE,
              << Player(1, "Orchestrator", 1, 0, FALSE, JoinCard),
                 Player(2, "Undecided", 1, 0, FALSE, JoinCard) >>,
              "Orchestrator", << >>, << >>)

PipelineInit ==
    /\ games = << LobbyGame >>
    /\ unique_ids = << [id |-> 1, elapsed |-> 0], [id |-> 2, elapsed |-> 0] >>
    /\ pre = [games |-> << >>, unique_ids |-> << >>]
    /\ last = NoCall
    /\ rin = NoRuleCase
    /\ rout = NoRuleRun

\* the controller while the players of a game take their turns
PipelineNext ==
    \/ StartGame
    \/ HandlePlayerInput
    \/ GetGameById
    \/ RemovePlayerFromGame
    \/ JoinGame

PipelineSpec == PipelineInit /\ [][PipelineNext]_vars

-----------------------------------------------------------------------------
\* the district modifiers a stored game holds when the players start to change them
DistrictStarts == { << >>, << DM(1, "Toll", NoRestriction, FALSE) >> }

\* a started game of two registered players
StartedGames ==
    {[start_game(LobbyGame).game EXCEPT !.district_modifiers = dms] :
        dms \in DistrictStarts}

DistrictInit ==
    /\ games \in {<< game >> : game \in StartedGames}
    /\ unique_ids = << [id |-> 1, elapsed |-> 0], [id |-> 2, elapsed |-> 0] >>
    /\ pre = [games |-> << >>, unique_ids |-> << >>]
    /\ last = NoCall
    /\ rin = NoRuleCase
    /\ rout = NoRuleRun

\* the controller while the players of a started game change the district modifiers
DistrictNext ==
    \/ HandlePlayerInput
    \/ GetGameById

DistrictSpec == DistrictInit /\ [][DistrictNext]_vars

-----------------------------------------------------------------------------
(* The rule checker on its own: is_input_valid applied to a game and an input *)

RulePositions == {NoNode, 1, 2, 3, 4, 5, 6}
RuleMoves == {0, 1, 2}
RuleCards == {NoCard, Card({"Emergency"}, 1), Card({}, 2), Card({"ParkAndRide"}, 1)}
RuleModifiers == { << >>,
                   << DM(1, "Access", "Emergency", FALSE) >>,
                   << DM(2, "Access", "Destination", FALSE) >> }
RuleTargets == {NoNode, 1, 2, 3, 4, 5, 6, 7}

RuleGames ==
    {GameState(1, lobby, << Player(1, role, pos, moves, bus, card) >>,
               "Orchestrator", dms, << >>) :
        lobby \in BOOLEAN, role \in {"Orchestrator", "PlayerOne"},
        pos \in RulePositions, moves \in RuleMoves, bus \in BOOLEAN,
        card \in RuleCards, dms \in RuleModifiers}

RuleInputs ==
    UNION {
        {[Input(pid, 1, "Movement") EXCEPT !.related_node_id = n] : n \in RuleTargets}
        \cup {[Input(pid, 1, "SetPlayerBusBool") EXCEPT !.related_bool = b] :
                 b \in {"None", "True"}}
        \cup {[Input(pid, 1, "ModifyEdgeRestrictions") EXCEPT !.edge_modifier = e] :
                 e \in {NoEdgeMod, EdgeMod(1, 2, "OneWay", FALSE),
                        EdgeMod(1, 5, "OneWay", TRUE)}}
        \cup {Input(pid, 1, k) :
                 k \in RuleInputTypes \ {"Movement", "SetPlayerBusBool",
                                         "ModifyEdgeRestrictions"}}
        : pid \in {1, 2}}

Validate ==
    /\ ~rout.done
    /\ rout' = [done |-> TRUE,
                evaluated |-> is_input_valid_run(rin.game, rin.input).evaluated,
                result |-> is_input_valid(rin.game, rin.input)]
    /\ UNCHANGED <<games, unique_ids, pre, last, rin>>

RuleInit ==
    /\ games = << >>
    /\ unique_ids = << >>
    /\ pre = [games |-> << >>, unique_ids |-> << >>]
    /\ last = NoCall
    /\ rin \in [game : RuleGames, input : RuleInputs]
    /\ rout = NoRuleRun

RuleNext == Validate

RuleSpec == RuleInit /\ [][RuleNext]_vars

-----------------------------------------------------------------------------
(* handle_district_restriction on its own, applied to a game and an input *)

\* the district modifiers the games and the inputs are made of
ModifierChoices ==
    {DM(1, "Toll", NoRestriction, FALSE), DM(2, "Toll", NoRestriction, FALSE),
     DM(1, "Access", "Emergency", FALSE)}

\* the longest modifier collection of a game
MaxModifiers == 3

ModifierGames ==
    {[start_game(LobbyGame).game EXCEPT !.district_modifiers = dms] :
        dms \in UNION {[1..n -> ModifierChoices] : n \in 0..MaxModifiers}}

ModifierInputs ==
    {[Input(1, 1, "ModifyDistrict") EXCEPT !.district_modifier = d] :
        d \in {NoDM} \cup ModifierChoices
                     \cup {[m EXCEPT !.delete = TRUE] : m \in ModifierChoices}}

ApplyModifier ==
    /\ ~rout.done
    /\ rout' = [done |-> TRUE, evaluated |-> << >>,
                result |-> handle_district_restriction(rin.input, rin.game)]
    /\ UNCHANGED <<games, unique_ids, pre, last, rin>>

ModifierInit ==
    /\ games = << >>
    /\ unique_ids = << >>
    /\ pre = [games |-> << >>, unique_ids |-> << >>]
    /\ last = NoCall
    /\ rin \in [game : ModifierGames, input : ModifierInputs]
    /\ rout = NoRuleRun

ModifierNext == ApplyModifier

ModifierSpec == ModifierInit /\ [][ModifierNext]_vars

-----------------------------------------------------------------------------

(* What the last call started from *)

\* the games and the registry once the purge at the head of a call has run
Purged == SelectSeq(pre.games, LAMBDA g : Len(g.players) > 0)
Live(pid) ==
    \E i \in 1..Len(pre.unique_ids) :
        pre.unique_ids[i].id = pid /\ pre.unique_ids[i].elapsed < PLAYER_TIMEOUT

HandledInput(kind) ==
    last.op = "handle_player_input" /\ last.input.input_type = kind

\* the input passed the identity check, the lookup and the rules
Dispatched ==
    last.op = "handle_player_input" /\ last.stage \in {"dispatch", "replay", "done"}

\* the game the call is about, before and after the call
TargetBefore == Purged[GameIndex(Purged, last.gid)]
TargetAfter == games[GameIndex(games, last.gid)]

\* the game with the first k entries of the log applied in order
RECURSIVE AppliedInOrder(_, _, _)
AppliedInOrder(log, k, game) ==
    IF k = 0
    THEN Ok(game)
    ELSE LET before == AppliedInOrder(log, k - 1, game)
         IN IF before.ok THEN apply_input(log[k], before.game) ELSE before

-----------------------------------------------------------------------------
(* Claims *)

\* C1: a NextTurn input that reaches the dispatch either succeeds, and the stored
\* game is the previous stored game with every logged action applied in order,
\* the log empty and the turn pointer advanced, or fails, and the stored game with
\* its log is what it was; the other games are untouched.
C1_NextTurnAtomic ==
    (Dispatched /\ HandledInput("NextTurn")) =>
        LET applied == AppliedInOrder(TargetBefore.actions,
                                      Len(TargetBefore.actions), TargetBefore)
            committed == [applied.game EXCEPT
                             !.actions = << >>,
                             !.current_players_turn =
                                 NextRole(TargetBefore.current_players_turn)]
            k == GameIndex(Purged, last.gid)
        IN \/ /\ last.ok
              /\ applied.ok
              /\ games = [Purged EXCEPT ![k] = committed]
           \/ /\ ~last.ok
              /\ games = Purged

\* a NextTurn that committed a log of two actions
C1_Witness ==
    /\ Dispatched /\ HandledInput("NextTurn")
    /\ last.ok
    /\ Len(TargetBefore.actions) = 2
    /\ TargetAfter.actions = << >>

\* a NextTurn that failed on a log that does not replay
C1_WitnessFailed ==
    /\ Dispatched /\ HandledInput("NextTurn")
    /\ ~last.ok
    /\ Len(TargetBefore.actions) > 0


\* C2: whenever handle_player_input fails, whatever the cause, every stored game is
\* what it was before the call (players, roles, turn pointer, district modifiers
\* and pending log); games without players are dropped by the purge.
C2_FailureChangesNothing ==
    (last.op = "handle_player_input" /\ ~last.ok) => games = Purged

\* a dispatch that failed on a game with a pending log
C2_Witness ==
    /\ last.op = "handle_player_input"
    /\ ~last.ok
    /\ last.stage = "dispatch"
    /\ Len(TargetBefore.actions) > 0
    /\ TargetAfter = TargetBefore

\* C3: in every reachable state the remaining-moves counter of every player is
\* >= 0, in the stored games and in the snapshot the last call returned.
C3_NonNegativeMoves ==
    /\ \A i \in 1..Len(games) : \A j \in 1..Len(games[i].players) :
           games[i].players[j].remaining_moves >= 0
    /\ \A j \in 1..Len(last.snap.players) :
           last.snap.players[j].remaining_moves >= 0

\* every player's counter is >= 0 in the stored games
C3_StoredNonNegativeMoves ==
    \A i \in 1..Len(games) : \A j \in 1..Len(games[i].players) :
        games[i].players[j].remaining_moves >= 0

\* C4: no stored game and no returned snapshot holds more district modifiers of a
\* kind than the cap of that kind.
C4_ModifierCap ==
    \A m \in DistrictModifierTypes :
        /\ \A i \in 1..Len(games) : ModifierCount(games[i], m) <= MaxModifierCount(m)
        /\ ModifierCount(last.snap, m) <= MaxModifierCount(m)

\* an input that adds a district modifier was dispatched
C4_Witness ==
    /\ Dispatched /\ HandledInput("ModifyDistrict")
    /\ last.input.district_modifier.some
    /\ ~last.input.district_modifier.delete

\* C5: a Movement or ModifyDistrict input that passes the rules is not applied to
\* the stored game: it is appended to the stored log exactly when the existing
\* log followed by the input replays on a clone, and nothing else is changed.
C5_StagedNotApplied ==
    (Dispatched /\ (HandledInput("Movement") \/ HandledInput("ModifyDistrict"))) =>
        LET log == Append(TargetBefore.actions, last.input)
            replays == AppliedInOrder(log, Len(log), TargetBefore).ok
            k == GameIndex(Purged, last.gid)
        IN /\ last.ok <=> replays
           /\ games = [Purged EXCEPT ![k].actions = IF replays THEN log ELSE @]

\* a Movement that joined a log that already held one
C5_Witness ==
    /\ Dispatched /\ HandledInput("Movement")
    /\ last.ok
    /\ Len(TargetBefore.actions) = 1
    /\ TargetAfter.actions = Append(TargetBefore.actions, last.input)
    /\ TargetAfter.players = TargetBefore.players

\* a Movement that the replay on the clone refused
C5_WitnessRefused ==
    /\ Dispatched /\ HandledInput("Movement")
    /\ ~last.ok
    /\ Len(TargetBefore.actions) = 1

\* C6: the replay that builds the returned snapshot does not touch the stored
\* game: after a successful handle_player_input the stored game is what the
\* dispatch left, get_game_by_id leaves the stored games as they were, and the
\* snapshot is the stored game with its log replayed once (the log still in it).
C6_SnapshotLeavesStored ==
    /\ (last.op = "handle_player_input" /\ last.ok) =>
           /\ games = [Purged EXCEPT ![GameIndex(Purged, last.gid)] =
                          handle_input(last.input, TargetBefore).game]
           /\ last.snap = AppliedInOrder(TargetAfter.actions,
                                         Len(TargetAfter.actions), TargetAfter).game
    /\ last.op = "get_game_by_id" =>
           /\ games = pre.games
           /\ last.ok =>
                  LET g == pre.games[GameIndex(pre.games, last.gid)]
                  IN last.snap = AppliedInOrder(g.actions, Len(g.actions), g).game

\* get_game_by_id returned a snapshot that differs from the stored game
C6_Witness ==
    /\ last.op = "get_game_by_id"
    /\ last.ok
    /\ Len(TargetAfter.actions) > 0
    /\ last.snap # TargetAfter
    /\ last.snap.actions = TargetAfter.actions

\* handle_player_input returned a snapshot that differs from the stored game
C6_WitnessInput ==
    /\ last.op = "handle_player_input"
    /\ last.ok
    /\ Len(TargetAfter.actions) > 0
    /\ last.snap # TargetAfter

\* the rules in the order of registration
RegistrationOrder ==
    << "game_started", "players_turn", "orchestrator_check", "player_has_position",
       "toggle_bus", "next_to_node", "enough_moves", "move_to_node",
       "can_modify_edge_restriction" >>

\* the rules bound to the kind of the input or to the wildcard kind, in order
Applicable ==
    SelectSeq(get_rules, LAMBDA rule : \/ rin.input.input_type \in rule.related_inputs
                                       \/ "All" \in rule.related_inputs)
Verdict(i) == rule_fn(Applicable[i].name, rin.game, rin.input)
Rejecting == {i \in 1..Len(Applicable) : Verdict(i) # Valid}
FirstRejecting == CHOOSE i \in Rejecting : \A j \in Rejecting : i <= j

\* C7: is_input_valid goes through the rules in the order of registration and
\* skips the rules bound neither to the kind of the input nor to the wildcard; the
\* rules it evaluates are the applicable ones up to and including the first that
\* reports invalid, whose reason it returns; it returns no reason exactly when
\* every applicable rule reports valid.
C7_FirstInvalidRuleDecides ==
    rout.done =>
        /\ [i \in 1..Len(get_rules) |-> get_rules[i].name] = RegistrationOrder
        /\ IF Rejecting = {}
           THEN /\ rout.result = NoError
                /\ rout.evaluated = [i \in 1..Len(Applicable) |-> Applicable[i].name]
           ELSE /\ rout.result = Verdict(FirstRejecting)
                /\ rout.result # NoError
                /\ rout.evaluated = [i \in 1..FirstRejecting |-> Applicable[i].name]

\* a Movement refused by the third of its six rules
C7_Witness ==
    /\ rout.done
    /\ rin.input.input_type = "Movement"
    /\ rout.result # NoError
    /\ rout.evaluated = << "game_started", "players_turn", "player_has_position" >>
    /\ Len(Applicable) > Len(rout.evaluated)

\* the identities whose last check-in is older than the timeout when the call begins
Expired ==
    {pre.unique_ids[i].id : i \in {j \in 1..Len(pre.unique_ids) :
                                      pre.unique_ids[j].elapsed > PLAYER_TIMEOUT}}

\* C8: once handle_player_input has been called, every identity whose check-in was
\* older than the timeout is gone from the registry and from every game, and no
\* game without players is left in the collection.
C8_PurgeCascades ==
    last.op = "handle_player_input" =>
        /\ \A pid \in Expired :
               /\ ~Registered(unique_ids, pid)
               /\ \A i \in 1..Len(games) : ~contains_player_with_unique_id(games[i], pid)
        /\ \A i \in 1..Len(games) : Len(games[i].players) > 0

\* the purge takes the expired identities out of the registry
C8_RegistryPurged ==
    last.op = "handle_player_input" =>
        \A pid \in Expired : ~Registered(unique_ids, pid)

\* C9: an input whose identity is not in the live registry (never issued, or
\* expired) is rejected at the identity check, before the game is looked up and
\* before any rule runs, and changes no game.
C9_UnknownIdentityRejected ==
    (last.op = "handle_player_input" /\ ~Live(last.input.player_id)) =>
        /\ ~last.ok
        /\ last.stage = "identity"
        /\ games = Purged

\* the input of an expired identity for a game that is there
C9_Witness ==
    /\ last.op = "handle_player_input"
    /\ last.input.player_id \in Expired
    /\ HasGame(Purged, last.gid)
    /\ contains_player_with_unique_id(TargetBefore, last.input.player_id)
    /\ last.stage = "identity"

\* the game start_game was called for
StartedFrom == pre.games[GameIndex(pre.games, last.gid)]
Orchestrators(game) ==
    {j \in 1..Len(game.players) : game.players[j].in_game_id = "Orchestrator"}

\* C10: start_game succeeds exactly when the game has one Orchestrator and at
\* least two players; a lone Orchestrator gets the not-enough-players reason, a
\* game without Orchestrator the no-orchestrator reason, and a failed start
\* leaves is_lobby and every player as they were.
C10_StartGame ==
    last.op = "start_game" =>
        LET n == Len(StartedFrom.players)
            orchestrators == Cardinality(Orchestrators(StartedFrom))
        IN /\ last.ok <=> (orchestrators = 1 /\ n >= 2)
           /\ (n = 1 /\ orchestrators = 1) =>
                  (~last.ok /\ last.err = NotEnoughPlayersReason)
           /\ orchestrators = 0 => (~last.ok /\ last.err = NoOrchestratorReason)
           /\ ~last.ok => games = pre.games

\* a lobby whose only player is the Orchestrator was refused
C10_Witness ==
    /\ last.op = "start_game"
    /\ ~last.ok
    /\ last.err = NotEnoughPlayersReason
    /\ StartedFrom.is_lobby
    /\ Len(StartedFrom.players) = 1
    /\ games = pre.games

\* the game start_game was called for, as the call left it
StartedTo == games[GameIndex(games, last.gid)]

GameIds(gs) == {gs[i].id : i \in 1..Len(gs)}
\* the host of the last create_new_game may not create a game
HostRefused ==
    \/ ~Registered(pre.unique_ids, last.pid)
    \/ \E i \in 1..Len(pre.games) : contains_player_with_unique_id(pre.games[i], last.pid)

\* C12: create_new_game fails and leaves the collection of games unchanged when
\* the host is not in the registry or belongs to a game already; otherwise it adds
\* exactly one game, whose identifier is that of no game already there and whose
\* first player is the host; the games of every reachable state have pairwise
\* distinct identifiers.
C12_CreateNewGame ==
    /\ \A i, j \in 1..Len(games) : games[i].id = games[j].id => i = j
    /\ last.op = "create_new_game" =>
           IF HostRefused
           THEN ~last.ok /\ games = pre.games
           ELSE /\ last.ok
                /\ Len(games) = Len(pre.games) + 1
                /\ SubSeq(games, 1, Len(pre.games)) = pre.games
                /\ games[Len(games)].id \notin GameIds(pre.games)
                /\ games[Len(games)].players[1].unique_id = last.pid
                /\ last.snap = games[Len(games)]

\* a game was created while another one was there
C12_Witness ==
    /\ last.op = "create_new_game"
    /\ last.ok
    /\ Len(pre.games) = 1
    /\ Len(games) = 2
    /\ games[1].id # games[2].id

\* a host that belongs to a game was refused
C12_WitnessRefused ==
    /\ last.op = "create_new_game"
    /\ ~last.ok
    /\ Registered(pre.unique_ids, last.pid)
    /\ games = pre.games

\* the player of the last join_game belongs to a game already
AlreadyMember ==
    \E i \in 1..Len(pre.games) : contains_player_with_unique_id(pre.games[i], last.pid)

\* C13: join_game rejects a player who belongs to a game already, the target or
\* another, and rejects the identifier of no game; in both cases the players of
\* every game are what they were.
C13_JoinRejected ==
    (last.op = "join_game" /\ (AlreadyMember \/ ~HasGame(pre.games, last.gid))) =>
        /\ ~last.ok
        /\ Len(games) = Len(pre.games)
        /\ \A i \in 1..Len(games) : games[i].players = pre.games[i].players

\* a player of one game was refused by another game
C13_Witness ==
    /\ last.op = "join_game"
    /\ ~last.ok
    /\ HasGame(pre.games, last.gid)
    /\ ~contains_player_with_unique_id(pre.games[GameIndex(pre.games, last.gid)], last.pid)
    /\ AlreadyMember
    /\ games = pre.games

\* a join for a game that is not there was refused
C13_WitnessUnknownGame ==
    /\ last.op = "join_game"
    /\ ~last.ok
    /\ ~AlreadyMember
    /\ ~HasGame(pre.games, last.gid)
    /\ Len(pre.games) > 0

\* C14: an UndoAction input that passes the rules removes the most recently
\* appended entry of the pending log and changes nothing else in the stored
\* games; when the log is empty it fails and the stored games are unchanged.
C14_UndoPopsLast ==
    (Dispatched /\ HandledInput("UndoAction")) =>
        LET k == GameIndex(Purged, last.gid)
            log == TargetBefore.actions
        IN IF Len(log) > 0
           THEN games = [Purged EXCEPT ![k].actions = SubSeq(log, 1, Len(log) - 1)]
           ELSE ~last.ok /\ games = Purged

\* the second of two staged Movements was undone
C14_Witness ==
    /\ Dispatched /\ HandledInput("UndoAction")
    /\ last.ok
    /\ Len(TargetBefore.actions) = 2
    /\ TargetBefore.actions[1] # TargetBefore.actions[2]
    /\ TargetAfter.actions = << TargetBefore.actions[1] >>

\* an undo on an empty log was refused
C14_WitnessEmpty ==
    /\ Dispatched /\ HandledInput("UndoAction")
    /\ ~last.ok
    /\ TargetBefore.actions = << >>
    /\ last.stage = "dispatch"

\* C15: the registry never holds an identifier twice; generate_player_id fails
\* only when none of the draws it checks is an identifier absent from the
\* registry, a failing call adds nothing, and a successful call adds the first
\* such draw with a fresh check-in.
C15_UniqueIdentities ==
    /\ \A i, j \in 1..Len(unique_ids) : unique_ids[i].id = unique_ids[j].id => i = j
    /\ \A draws \in Draws :
           LET unique == generate_unused_unique_id(unique_ids, draws)
               out == generate_player_id(games, unique_ids, unique.id, unique.found)
           IN /\ ~out.ok <=> \A i \in 1..DrawBudget : Registered(unique_ids, draws[i])
              /\ ~out.ok => out.unique_ids = unique_ids
              /\ out.ok => /\ ~Registered(unique_ids, unique.id)
                           /\ \E i \in 1..DrawBudget : draws[i] = unique.id
    /\ last.op = "generate_player_id" =>
           IF last.ok
           THEN /\ ~Registered(pre.unique_ids, last.pid)
                /\ unique_ids = Append(pre.unique_ids, [id |-> last.pid, elapsed |-> 0])
           ELSE unique_ids = pre.unique_ids

\* an identifier was issued after a draw that hit one in use
C15_Witness ==
    /\ last.op = "generate_player_id"
    /\ last.ok
    /\ Len(pre.unique_ids) = 1
    /\ Len(unique_ids) = 2
    /\ \E draws \in Draws :
           /\ Registered(pre.unique_ids, draws[1])
           /\ generate_unused_unique_id(pre.unique_ids, draws).id = last.pid

\* every draw hit an identifier in use, some of them expired
C15_WitnessFailed ==
    /\ last.op = "generate_player_id"
    /\ ~last.ok
    /\ Len(pre.unique_ids) > 0
    /\ unique_ids = pre.unique_ids

\* the queries and the maintenance calls of the controller
Queries ==
    {"get_game_by_id", "get_all_lobbies", "get_created_games",
     "remove_player_from_game", "update_check_in_and_remove_inactive"}

\* the identifiers of the games that have no players when the call begins
EmptyBefore == {pre.games[i].id : i \in {j \in 1..Len(pre.games) : pre.games[j].players = << >>}}

\* C16: each of get_game_by_id, get_all_lobbies, get_created_games,
\* remove_player_from_game and update_check_in_and_remove_inactive purges the
\* expired identities and the games without players before it reports, and none
\* of them returns a game without players.
C16_QueriesPurge ==
    last.op \in Queries =>
        /\ \A pid \in Expired : ~Registered(unique_ids, pid)
        /\ \A i \in 1..Len(games) : games[i].id \notin EmptyBefore
        /\ (last.op = "get_game_by_id" /\ last.ok) => last.snap.players # << >>
        /\ last.op = "get_all_lobbies" =>
               \A i \in 1..Len(get_all_lobbies(games)) :
                   get_all_lobbies(games)[i].players # << >>
        /\ last.op = "get_created_games" =>
               \A i \in 1..Len(games) : games[i].players # << >>

\* update_check_in_and_remove_inactive runs both purges
C16_CheckInPurges ==
    last.op = "update_check_in_and_remove_inactive" =>
        /\ \A i \in 1..Len(unique_ids) : unique_ids[i].elapsed < PLAYER_TIMEOUT
        /\ \A i \in 1..Len(games) : games[i].players # << >>

\* get_created_games drops the games without players and returns the rest
C16_CreatedGamesNotEmpty ==
    last.op = "get_created_games" =>
        \A i \in 1..Len(games) : games[i].players # << >>

\* get_game_by_id never returns a game without players
C16_NoEmptySnapshot ==
    (last.op = "get_game_by_id" /\ last.ok) => last.snap.players # << >>

\* get_created_games leaves no expired identity in the registry
C16_CreatedGamesPurgesIds ==
    last.op = "get_created_games" => \A pid \in Expired : ~Registered(unique_ids, pid)

\* the stored game a replay starts from is the one the last replay started from
SameBase ==
    /\ last'.gid = last.gid
    /\ games' = games

OffTurn(game, input) ==
    \/ ~contains_player_with_unique_id(game, input.player_id)
    \/ get_player_with_unique_id(game, input.player_id).in_game_id #
           game.current_players_turn

\* C18: in a started game an input of any kind but LeaveGame whose player is not
\* in the game or does not hold the turn is rejected by the rules, and the stored
\* games are unchanged; in a lobby, and for a LeaveGame input, the players-turn
\* rule answers valid.
C18_OnlyOnTurn ==
    /\ (/\ last.op = "handle_player_input"
        /\ Live(last.input.player_id)
        /\ HasGame(Purged, last.gid)
        /\ ~TargetBefore.is_lobby
        /\ last.input.input_type # "LeaveGame"
        /\ OffTurn(TargetBefore, last.input)) =>
           (~last.ok /\ last.stage = "rules" /\ games = Purged)
    /\ \A i \in 1..Len(games) : \A kind \in RuleInputTypes : \A pid \in Callers :
           LET input == Input(pid, games[i].id, kind)
           IN /\ (games[i].is_lobby \/ kind = "LeaveGame") =>
                     is_players_turn(games[i], input) = Valid
              /\ (~games[i].is_lobby /\ kind # "LeaveGame" /\ OffTurn(games[i], input)) =>
                     is_input_valid(games[i], input) # NoError

\* a player of a started game staged a Movement while another held the turn
C18_Witness ==
    /\ last.op = "handle_player_input"
    /\ last.input.input_type = "Movement"
    /\ HasGame(Purged, last.gid)
    /\ ~TargetBefore.is_lobby
    /\ contains_player_with_unique_id(TargetBefore, last.input.player_id)
    /\ OffTurn(TargetBefore, last.input)
    /\ last.stage = "rules"
    /\ last.err = "It's not the current players turn"
    /\ games = Purged

C19_DistrictStaged ==
    (HandledInput("ModifyDistrict") /\ last.ok) =>
        /\ TargetAfter.district_modifiers = TargetBefore.district_modifiers
        /\ TargetAfter.actions = Append(TargetBefore.actions, last.input)

\* a ModifyDistrict input was accepted
C19_WitnessAccepted ==
    /\ HandledInput("ModifyDistrict")
    /\ last.ok
    /\ last.input.district_modifier.delete

\* every prefix of the pending log of every game replays from the stored game
LogsReplay(gs) ==
    \A i \in 1..Len(gs) : \A k \in 0..Len(gs[i].actions) :
        AppliedInOrder(gs[i].actions, k, gs[i]).ok

\* C20: in every reachable state every prefix of the pending log of a game
\* replays without error from the stored game.
C20_EveryPrefixReplays == LogsReplay(games)

\* C20, as the inputs keep it: an input handled by handle_player_input (a staged
\* Movement or ModifyDistrict, UndoAction, NextTurn, a ChangeRole applied at
\* once) leaves every prefix of every pending log replayable when every prefix
\* was replayable before the call.
C20_InputsKeepLogsReplayable ==
    (last.op = "handle_player_input" /\ LogsReplay(pre.games)) => LogsReplay(games)

\* a role was changed at once while two staged Movements were pending
C20_Witness ==
    /\ HandledInput("ChangeRole")
    /\ last.ok
    /\ HasGame(Purged, last.gid)
    /\ Len(TargetBefore.actions) = 2
    /\ TargetAfter.players # TargetBefore.players
    /\ TargetAfter.actions = TargetBefore.actions
    /\ LogsReplay(pre.games)
    /\ LogsReplay(games)

\* the modifier of the input, and how many of its kind the game holds
AddedModifier == rin.input.district_modifier
HeldOfKind == ModifierCount(rin.game, AddedModifier.modifier)

\* C21: adding a district modifier (delete flag unset) fails only when the game
\* holds the cap number of modifiers of that kind: whenever it holds fewer, the
\* modifier is added and the operation succeeds.
C21_AddBelowCapSucceeds ==
    (rout.done /\ AddedModifier.some /\ ~AddedModifier.delete) =>
        /\ HeldOfKind < MaxModifierCount(AddedModifier.modifier) =>
               /\ rout.result.ok
               /\ rout.result.game.district_modifiers =
                      Append(rin.game.district_modifiers, AddedModifier)
        /\ ~rout.result.ok => HeldOfKind >= MaxModifierCount(AddedModifier.modifier)

\* an addition is refused exactly when the cap is at least the number held
C21_AddRefusedUpToCap ==
    (rout.done /\ AddedModifier.some /\ ~AddedModifier.delete) =>
        /\ ~rout.result.ok <=> MaxModifierCount(AddedModifier.modifier) >= HeldOfKind
        /\ ~rout.result.ok => rout.result.game = rin.game

\* a modifier was refused by a game that holds none of its kind
C21_WitnessRefused ==
    /\ rout.done
    /\ AddedModifier.some /\ ~AddedModifier.delete
    /\ HeldOfKind = 0
    /\ ~rout.result.ok

\* the entry a deletion looks for, and where the game holds it
Sought == [rin.input.district_modifier EXCEPT !.delete = FALSE]
SoughtAt ==
    {i \in 1..Len(rin.game.district_modifiers) : rin.game.district_modifiers[i] = Sought}

\* C22: a district-modifier input with the delete flag set removes one entry, the
\* first that equals the input with its delete flag cleared, and keeps the order
\* of the others; when there is no such entry it fails and the collection is
\* unchanged.
C22_DeleteRemovesFirst ==
    (rout.done /\ rin.input.district_modifier.some /\ rin.input.district_modifier.delete) =>
        LET dms == rin.game.district_modifiers
            left == rout.result.game.district_modifiers
        IN IF SoughtAt = {}
           THEN ~rout.result.ok /\ rout.result.game = rin.game
           ELSE LET first == CHOOSE i \in SoughtAt : \A j \in SoughtAt : i <= j
                IN /\ rout.result.ok
                   /\ Len(left) = Len(dms) - 1
                   /\ \A i \in 1..Len(left) :
                          left[i] = IF i < first THEN dms[i] ELSE dms[i + 1]
                   /\ rout.result.game = [rin.game EXCEPT !.district_modifiers = left]

\* the first of two equal entries was deleted, with another entry between them
C22_Witness ==
    /\ rout.done
    /\ rin.input.district_modifier.some /\ rin.input.district_modifier.delete
    /\ Len(rin.game.district_modifiers) = 3
    /\ SoughtAt = {1, 3}
    /\ rout.result.ok
    /\ rout.result.game.district_modifiers =
           << rin.game.district_modifiers[2], rin.game.district_modifiers[3] >>

\* a deletion of an entry the game does not hold was refused
C22_WitnessAbsent ==
    /\ rout.done
    /\ rin.input.district_modifier.some /\ rin.input.district_modifier.delete
    /\ Len(rin.game.district_modifiers) = 2
    /\ SoughtAt = {}
    /\ ~rout.result.ok

\* the player a Movement is about, where the player stands and the edge asked for
Mover == get_player_with_unique_id(rin.game, rin.input.player_id)
MovementCase ==
    /\ rin.input.input_type = "Movement"
    /\ contains_player_with_unique_id(rin.game, rin.input.player_id)
    /\ Mover.position_node_id # NoNode
    /\ rin.input.related_node_id # NoNode
EdgesOut == MapNeighbours(Mover.position_node_id)
HasEdge == HasRelTo(EdgesOut, rin.input.related_node_id)
EdgeTo == FindRelTo(EdgesOut, rin.input.related_node_id)
ParkAndRideEdge ==
    \E i \in 1..Len(EdgesOut) :
        /\ EdgesOut[i].to = rin.input.related_node_id
        /\ EdgesOut[i].restriction = "ParkAndRide"
RailEdge ==
    \E i \in 1..Len(EdgesOut) :
        /\ EdgesOut[i].to = rin.input.related_node_id
        /\ EdgesOut[i].is_connected_through_rail
OneWayBack ==
    LET back == MapNeighbours(rin.input.related_node_id)
    IN /\ HasRelTo(back, Mover.position_node_id)
       /\ FindRelTo(back, Mover.position_node_id).restriction = "OneWay"

\* the validation went as far as can_move_to_node, and what that rule answered
MoveRuleRan ==
    /\ rout.done
    /\ Len(rout.evaluated) > 0
    /\ rout.evaluated[Len(rout.evaluated)] = "move_to_node"
MoveRuleVerdict == IF rout.result = NoError THEN Valid ELSE rout.result

\* a non-bus Movement along an edge that neither rail check decides and that no
\* OneWay edge in the opposite direction blocks
CarOnEdge ==
    /\ MovementCase
    /\ ~Mover.is_bus
    /\ HasEdge
    /\ rin.input.related_node_id \in Nodes
    /\ ~RailEdge
    /\ ~(Node(Mover.position_node_id).is_connected_to_rail
           /\ Node(rin.input.related_node_id).is_connected_to_rail)
    /\ ~OneWayBack

\* C23: for a player in bus mode that has a position, asked to move to a node,
\* can_move_to_node answers valid exactly when an edge from the position to the
\* target carries ParkAndRide, and the bus reason otherwise, whatever the rail
\* flags, the OneWay restrictions, the objective card and the district modifiers
\* are; a validation that gets as far as the rule returns that answer.
C23_BusOnlyParkAndRide ==
    (MovementCase /\ Mover.is_bus) =>
        /\ can_move_to_node(rin.game, rin.input) =
               IF ParkAndRideEdge THEN Valid ELSE BusReason
        /\ MoveRuleRan =>
               MoveRuleVerdict = IF ParkAndRideEdge THEN Valid ELSE BusReason

\* a bus without an objective card was let across a ParkAndRide edge into a
\* district that holds an Access modifier
C23_Witness ==
    /\ MoveRuleRan
    /\ MovementCase /\ Mover.is_bus
    /\ ParkAndRideEdge
    /\ ~Mover.objective_card.some
    /\ \E i \in 1..Len(rin.game.district_modifiers) :
           rin.game.district_modifiers[i].district = EdgeTo.neighbourhood
    /\ rout.result = NoError

\* a bus was refused an unrestricted edge with the bus reason
C23_WitnessRefused ==
    /\ MoveRuleRan
    /\ MovementCase /\ Mover.is_bus
    /\ HasEdge /\ EdgeTo.restriction = NoRestriction
    /\ rout.result = BusReason

\* C24: can_move_to_node refuses every non-bus Movement across an edge that
\* carries ParkAndRide, whatever objective card the player holds.
C24_ParkAndRideBusOnly ==
    (MoveRuleRan /\ MovementCase /\ ~Mover.is_bus /\ ParkAndRideEdge) =>
        /\ rout.result # NoError
        /\ can_move_to_node(rin.game, rin.input) # Valid

\* a non-bus player crosses a ParkAndRide edge exactly when the objective card
\* names ParkAndRide among its special vehicle types
C24_CardNamingParkAndRidePasses ==
    (MoveRuleRan /\ CarOnEdge /\ EdgeTo.restriction = "ParkAndRide") =>
        (rout.result = NoError <=>
            /\ Mover.objective_card.some
            /\ "ParkAndRide" \in Mover.objective_card.special_vehicle_types)

\* a non-bus player was let across a ParkAndRide edge
C24_WitnessAccepted ==
    /\ MoveRuleRan
    /\ MovementCase /\ ~Mover.is_bus
    /\ ParkAndRideEdge
    /\ rout.result = NoError

\* C25: a non-bus Movement along an edge that is OneWay in the direction of
\* travel, decided neither by the rail checks nor by a OneWay edge in the opposite
\* direction, is not refused by can_move_to_node, with or without an objective
\* card.
C25_ForwardOneWayNeverBlocks ==
    (MoveRuleRan /\ CarOnEdge /\ EdgeTo.restriction = "OneWay") =>
        /\ rout.result = NoError
        /\ can_move_to_node(rin.game, rin.input) = Valid

\* along such an edge the holder of any objective card passes and a player
\* without one is refused for the missing card
C25_ForwardOneWayNeedsCard ==
    (MoveRuleRan /\ CarOnEdge /\ EdgeTo.restriction = "OneWay") =>
        rout.result = IF Mover.objective_card.some THEN NoError ELSE NoCardReason

\* a player without an objective card was refused a forward OneWay edge
C25_WitnessRefused ==
    /\ MoveRuleRan
    /\ CarOnEdge /\ EdgeTo.restriction = "OneWay"
    /\ ~Mover.objective_card.some
    /\ rout.result = NoCardReason

\* the game holds an Access modifier for the district of the edge
AccessModifierOnEdge ==
    \E i \in 1..Len(rin.game.district_modifiers) :
        /\ rin.game.district_modifiers[i].district = EdgeTo.neighbourhood
        /\ rin.game.district_modifiers[i].modifier = "Access"

\* C26: for a non-bus Movement along an unrestricted edge into a district for
\* which the game holds no Access modifier, can_enter_district answers valid for
\* every player, a player without an objective card included.
C26_NoAccessModifierPasses ==
    (MoveRuleRan /\ CarOnEdge /\ EdgeTo.restriction = NoRestriction
       /\ ~AccessModifierOnEdge) =>
        /\ can_enter_district(rin.game, rin.input) = Valid
        /\ rout.result = NoError

\* without an Access modifier on the district the holder of any objective card
\* passes and a player without one is refused
C26_NoAccessModifierNeedsCard ==
    (MoveRuleRan /\ CarOnEdge /\ EdgeTo.restriction = NoRestriction
       /\ ~AccessModifierOnEdge) =>
        /\ can_enter_district(rin.game, rin.input) =
               IF Mover.objective_card.some THEN Valid
               ELSE "Error: Player does not have an objective card"
        /\ rout.result = IF Mover.objective_card.some THEN NoError
                         ELSE "Error: Player does not have an objective card"

\* a player without an objective card was refused an unrestricted edge into a
\* district without modifiers
C26_WitnessRefused ==
    /\ MoveRuleRan
    /\ CarOnEdge /\ EdgeTo.restriction = NoRestriction
    /\ rin.game.district_modifiers = << >>
    /\ ~Mover.objective_card.some
    /\ rout.result # NoError

\* the Movement entries of a player in a log go from pos along edges of the map
RECURSIVE IsWalk(_, _, _, _)
IsWalk(log, k, pid, pos) ==
    IF k > Len(log)
    THEN TRUE
    ELSE IF log[k].input_type = "Movement" /\ log[k].player_id = pid
    THEN /\ HasRelTo(MapNeighbours(pos), log[k].related_node_id)
         /\ IsWalk(log, k + 1, pid, log[k].related_node_id)
    ELSE IsWalk(log, k + 1, pid, pos)

\* where the player of the last input stands once the log held before the call is
\* replayed
ProjectedPosition ==
    get_player_with_unique_id(
        ReplayFrom(TargetBefore.actions, 1, TargetBefore).game,
        last.input.player_id).position_node_id

C27_WitnessRefused ==
    /\ HandledInput("Movement") /\ ~last.ok
    /\ last.stage = "dispatch"
    /\ HasGame(Purged, last.gid)
    /\ Len(TargetBefore.actions) = 1
    /\ TargetBefore.actions[1] = last.input
    /\ games[GameIndex(games, last.gid)].actions = TargetBefore.actions

\* the places, game and seat, at which an identity is a player
Seats(gs, pid) ==
    {<<i, j>> \in (1..Len(gs)) \X (1..2 * Cardinality(Callers)) :
        j <= Len(gs[i].players) /\ gs[i].players[j].unique_id = pid}

\* C28: in every state of the controller an identity is a player of at most one
\* game of the collection, and holds at most one seat in it.
C28_OneSeatPerIdentity ==
    \A pid \in Callers : Cardinality(Seats(games, pid)) <= 1

\* two games with one player each, and the player of one was refused when
\* creating another game or joining the other
C28_Witness ==
    /\ Len(games) = 2
    /\ \A i \in 1..Len(games) : Len(games[i].players) = 1
    /\ games[1].players[1].unique_id # games[2].players[1].unique_id
    /\ last.op \in {"create_new_game", "join_game"}
    /\ ~last.ok
    /\ Cardinality(Seats(games, last.pid)) = 1
    /\ games = pre.games

\* the kinds of input bound to the game-has-started rule
TurnKinds == {"Movement", "ModifyDistrict", "NextTurn", "UndoAction"}

\* the last call was an input of such a kind, by a registered caller, for a lobby
LobbyTurnInput ==
    /\ last.op = "handle_player_input"
    /\ last.input.input_type \in TurnKinds
    /\ Live(last.input.player_id)
    /\ HasGame(Purged, last.gid)
    /\ TargetBefore.is_lobby

\* C29: a game that is a lobby has an empty pending log and its turn pointer is
\* where GameState::new put it; a Movement, ModifyDistrict, NextTurn or UndoAction
\* input for a lobby is rejected by the game-has-started rule, the first rule run,
\* and the stored games are unchanged.
C29_LobbyTakesNoTurnInput ==
    /\ \A i \in 1..Len(games) :
           games[i].is_lobby =>
               /\ games[i].actions = << >>
               /\ games[i].current_players_turn =
                      NewGameState(games[i].id).current_players_turn
    /\ LobbyTurnInput =>
           /\ ~last.ok
           /\ last.stage = "rules"
           /\ last.err = has_game_started(TargetBefore, last.input)
           /\ last.err # Valid
           /\ is_input_valid_run(TargetBefore, last.input).evaluated = << "game_started" >>
           /\ games = Purged
    /\ \A i \in 1..Len(games) : \A kind \in TurnKinds : \A pid \in Callers :
           games[i].is_lobby =>
               is_input_valid(games[i], Input(pid, games[i].id, kind)) =
                   has_game_started(games[i], Input(pid, games[i].id, kind))

\* the Orchestrator of a lobby of two asked for the next turn and was refused
C29_Witness ==
    /\ LobbyTurnInput
    /\ last.input.input_type = "NextTurn"
    /\ Len(TargetBefore.players) = 2
    /\ contains_player_with_unique_id(TargetBefore, last.input.player_id)
    /\ get_player_with_unique_id(TargetBefore, last.input.player_id).in_game_id =
           "Orchestrator"
    /\ ~last.ok
    /\ TargetAfter = TargetBefore

\* a member of a lobby asked for a Movement to a neighbouring node and was refused
C29_WitnessMovement ==
    /\ LobbyTurnInput
    /\ last.input.input_type = "Movement"
    /\ last.input.related_node_id = 2
    /\ contains_player_with_unique_id(TargetBefore, last.input.player_id)
    /\ ~last.ok
    /\ TargetAfter.actions = << >>

\* the last call staged a Movement or a ModifyDistrict input
Staged ==
    /\ last.op = "handle_player_input"
    /\ last.ok
    /\ last.input.input_type \in {"Movement", "ModifyDistrict"}

\* the step is an UndoAction input of the player of the last call, for its game
UndoneNext ==
    /\ last'.op = "handle_player_input"
    /\ last'.input.input_type = "UndoAction"
    /\ last'.input.player_id = last.input.player_id
    /\ last'.gid = last.gid

\* C30: when a Movement or ModifyDistrict input has been accepted and the next
\* call is an UndoAction input of the same player for the same game, the undo
\* succeeds, the stored game, pending log included, is the stored game from
\* before the staged input, and the snapshot the undo returns is the replay of
\* the log of that game, the snapshot there was before the staging.
C30_StageUndoRoundTrip ==
    [][ (Staged /\ UndoneNext) =>
            /\ last'.ok
            /\ HasGame(games', last.gid)
            /\ games'[GameIndex(games', last.gid)] = TargetBefore
            /\ Len(games') = Len(Purged)
            /\ apply_game_actions(TargetBefore).ok
            /\ last'.snap = apply_game_actions(TargetBefore).game
      ]_vars

\* the last entry of the log the call found, and what it was
Undone == pre.games[GameIndex(pre.games, last.gid)].actions
UndoneEntry == Undone[Len(Undone)]

\* an undo took a staged deletion of a district modifier off a log of two entries
C30_Witness ==
    /\ HandledInput("UndoAction") /\ last.ok
    /\ HasGame(pre.games, last.gid)
    /\ Len(Undone) = 2
    /\ UndoneEntry.input_type = "ModifyDistrict"
    /\ UndoneEntry.player_id = last.input.player_id
    /\ TargetAfter.actions = << Undone[1] >>
    /\ last.snap = apply_game_actions(TargetAfter).game
    /\ last.snap # TargetAfter

\* an undo took a staged Movement off the log and the snapshot shows the player
\* back at the stored position
C30_WitnessMovement ==
    /\ HandledInput("UndoAction") /\ last.ok
    /\ HasGame(pre.games, last.gid)
    /\ Len(Undone) = 1
    /\ UndoneEntry.input_type = "Movement"
    /\ UndoneEntry.player_id = last.input.player_id
    /\ TargetAfter.actions = << >>
    /\ last.snap = TargetAfter

====
